---- MODULE Spec2Model ----
(***************************************************************************)
(* A model of Election.py: calc_saint_lague_method, the modified           *)
(* Sainte-Lague seat allocation with its gain and loss margin tables.      *)
(*                                                                         *)
(* Numbers.  Votes are integers.  A divisor is a positive rational, kept   *)
(* as a pair <<numerator, denominator>> (1.2 is <<6, 5>>), and a quotient  *)
(* votes/divisor is the fraction <<votes * den, num>>.  Quotients are      *)
(* compared, subtracted and rounded exactly; the rounding error of the     *)
(* float64 arithmetic of the source is not modelled.                       *)
(*                                                                         *)
(* Indices are 0-based as in the source, and an index into an array goes   *)
(* through PyIndex, which wraps a negative index as Python does and        *)
(* reports an index outside the array.                                     *)
(*                                                                         *)
(* Two things the source leaves to the numpy build are nondeterministic    *)
(* inputs of a run: the order np.argsort gives to equal quotients          *)
(* (sort_kind), and the type of seats_per_party[p] - k, which is a signed  *)
(* integer under value-based casting and a wrapping uint32 otherwise       *)
(* (uint_wraps).                                                           *)
(***************************************************************************)
EXTENDS Integers, Sequences, FiniteSets, TLC

\* ---------------------------------------------------------------- bounds
MaxParties == 2
MaxVote == 3
MaxSeats == 3

\* Election.py line 6
max_extra_seats == 6

\* first_divisor values tried: 1.2 (the default), 3.0 and 4.0
FirstDivisors == {<<6, 5>>, <<3, 1>>, <<4, 1>>}

SortKinds == {"stable", "reversing", "rank_major"}

\* Inputs beyond the bounds above.  ScenarioA is concrete scenario A of the
\* specification; ScenarioTwo is a two-party election with seats enough for
\* every walk of the margin analysis to stay inside the ranking, and
\* ScenarioTen a closer one with seats enough for the gain walks only.
ScenarioA ==
    [votes |-> [p \in 0..2 |-> CASE p = 0 -> 100 [] p = 1 -> 80 [] OTHER -> 30],
     num_seats |-> 4, first_divisor |-> <<7, 5>>]

ScenarioTwo ==
    [votes |-> [p \in 0..1 |-> IF p = 0 THEN 100 ELSE 80],
     num_seats |-> 24, first_divisor |-> <<6, 5>>]

ScenarioTen ==
    [votes |-> [p \in 0..1 |-> IF p = 0 THEN 11 ELSE 10],
     num_seats |-> 10, first_divisor |-> <<6, 5>>]

Scenarios == {ScenarioA, ScenarioTwo, ScenarioTen}

VARIABLES
    votes,              \* votes[p], p in 0..num_parties-1
    names_len,          \* party_names.shape[0]
    colors_len,         \* party_colors.shape[0]
    num_seats,
    first_divisor,
    sort_kind,          \* what this build's argsort does with equal keys
    uint_wraps,         \* whether uint32 - int stays uint32 in this build
    pc,
    error,              \* "none", "AssertionError" or "IndexError"
    party_dim,          \* the global ranking: party of each position
    divisor_dim,        \* the global ranking: divisor rank of each position
    seats_per_party,
    gain_table,         \* votes_needed of lines 45-71: gain_table[p][g-1]
    gain_count,         \* entries of gain_table written so far
    loss_table,         \* votes_needed of lines 97-119: loss_table[p][l-1]
    loss_count,         \* entries of loss_table written so far
    output              \* what has been printed or plotted, in order

vars == <<votes, names_len, colors_len, num_seats, first_divisor, sort_kind,
          uint_wraps, pc, error, party_dim, divisor_dim, seats_per_party,
          gain_table, gain_count, loss_table, loss_count, output>>

\* ------------------------------------------------------------ arithmetic
NumParties(v) == Cardinality(DOMAIN v)

Parties(v) == 0..(NumParties(v) - 1)

\* len(divisors), line 13
NumDivisors(ns) == ns + max_extra_seats

\* divisors[r], lines 13-14
Divisor(fd, r) == IF r = 0 THEN fd ELSE <<1 + 2 * r, 1>>

\* quotients[p, r] = votes[p] / divisors[r], line 17
Quotient(v, fd, c) == <<v[c[1]] * Divisor(fd, c[2])[2], Divisor(fd, c[2])[1]>>

FracLess(a, b) == a[1] * b[2] < b[1] * a[2]

FracEq(a, b) == a[1] * b[2] = b[1] * a[2]

\* ceil(a / b) for b > 0
CeilDiv(a, b) == -((-a) \div b)

\* a[i] of a Python sequence of length n: the 0-based place, or -1 (IndexError)
PyIndex(i, n) == IF i >= n \/ i < -n THEN -1 ELSE IF i < 0 THEN i + n ELSE i

RECURSIVE SumTo(_, _)
SumTo(f, n) == IF n < 0 THEN 0 ELSE f[n] + SumTo(f, n - 1)

Sum(f) == SumTo(f, Cardinality(DOMAIN f) - 1)

\* --------------------------------------------------------------- ranking
\* quotients.size
NumCoords(v, ns) == NumParties(v) * NumDivisors(ns)

\* np.unravel_index(f, quotients.shape), line 22: flattened index f |-> (p, r)
Unravel(ns, f) == <<f \div NumDivisors(ns), f % NumDivisors(ns)>>

\* Whether the ascending argsort of this build puts equal keys f1 before f2
\* (flattened indices f1 # f2).
TieAscBefore(kind, ns, f1, f2) ==
    CASE kind = "stable" -> f1 < f2
      [] kind = "reversing" -> f1 > f2
      [] OTHER -> \/ Unravel(ns, f1)[2] > Unravel(ns, f2)[2]
                  \/ /\ Unravel(ns, f1)[2] = Unravel(ns, f2)[2]
                     /\ f1 > f2

\* np.argsort(quotients, axis=None), line 18: keys[f1] comes before keys[f2]
AscBefore(keys, kind, ns, f1, f2) ==
    \/ FracLess(keys[f1], keys[f2])
    \/ /\ f1 # f2
       /\ FracEq(keys[f1], keys[f2])
       /\ TieAscBefore(kind, ns, f1, f2)

\* The argsort without its reversal [::-1]: smallest quotient first.
ArgsortAscending(keys, kind, ns) ==
    LET n == Cardinality(DOMAIN keys)
        asc == [f \in 0..(n - 1) |->
                   Cardinality({g \in 0..(n - 1) : AscBefore(keys, kind, ns, g, f)})]
    IN  [i \in 0..(n - 1) |-> CHOOSE f \in 0..(n - 1) : asc[f] = i]

\* quotients_descending, line 18: position i |-> flattened index
ArgsortDescending(keys, kind, ns) ==
    LET n == Cardinality(DOMAIN keys)
        asc == [f \in 0..(n - 1) |->
                   Cardinality({g \in 0..(n - 1) : AscBefore(keys, kind, ns, g, f)})]
    IN  [i \in 0..(n - 1) |-> CHOOSE f \in 0..(n - 1) : asc[f] = n - 1 - i]

\* lines 17-18: the global ranking of the inputs, position i |-> flattened index
Ranking(v, fd, ns, kind) ==
    ArgsortDescending([f \in 0..(NumCoords(v, ns) - 1) |-> Quotient(v, fd, Unravel(ns, f))],
                      kind, ns)

\* A tally by one vectorised increment, seats_per_party[party_dim[:n]] += 1,
\* which counts a party once however many positions it holds.
SeatTallyFancyIndex(pd, v, ns) ==
    [p \in Parties(v) |-> IF \E i \in 0..(ns - 1) : pd[i] = p THEN 1 ELSE 0]

\* lines 27-29
SeatTally(pd, v, ns) ==
    [p \in Parties(v) |-> Cardinality({i \in 0..(ns - 1) : pd[i] = p})]

\* the whole allocation, lines 13-29, as a function of its inputs
Allocation(v, fd, ns, kind) ==
    CHOOSE t \in {SeatTally([i \in 0..(ns - 1) |-> Unravel(ns, rk[i])[1]], v, ns) :
                  rk \in {Ranking(v, fd, ns, kind)}} : TRUE

\* ------------------------------------------------------------------ Init
Tallies == UNION {[0..(n - 1) -> 0..MaxVote] : n \in 1..MaxParties}

Init ==
    /\ \/ /\ votes \in Tallies
          /\ num_seats \in 0..MaxSeats
          /\ first_divisor \in FirstDivisors
       \/ \E s \in Scenarios :
             /\ votes = s.votes
             /\ num_seats = s.num_seats
             /\ first_divisor = s.first_divisor
    /\ names_len \in {NumParties(votes), NumParties(votes) + 1}
    /\ colors_len \in {NumParties(votes), NumParties(votes) + 1}
    /\ sort_kind \in SortKinds
    /\ uint_wraps \in BOOLEAN
    /\ pc = "validate"
    /\ error = "none"
    /\ party_dim = <<>>
    /\ divisor_dim = <<>>
    /\ seats_per_party = <<>>
    /\ gain_table = <<>>
    /\ gain_count = 0
    /\ loss_table = <<>>
    /\ loss_count = 0
    /\ output = <<>>

\* --------------------------------------------------------------- actions
\* lines 8-11
ValidateFail ==
    /\ pc = "validate"
    /\ \/ names_len # NumParties(votes)
       \/ colors_len # NumParties(votes)
       \/ ~(num_seats > 0)
    /\ pc' = "failed"
    /\ error' = "AssertionError"
    /\ UNCHANGED <<votes, names_len, colors_len, num_seats, first_divisor,
                   sort_kind, uint_wraps, party_dim, divisor_dim,
                   seats_per_party, gain_table, gain_count, loss_table,
                   loss_count, output>>

ValidateOk ==
    /\ pc = "validate"
    /\ names_len = NumParties(votes)
    /\ colors_len = NumParties(votes)
    /\ num_seats > 0
    /\ pc' = "allocate"
    /\ UNCHANGED <<votes, names_len, colors_len, num_seats, first_divisor,
                   sort_kind, uint_wraps, error, party_dim, divisor_dim,
                   seats_per_party, gain_table, gain_count, loss_table,
                   loss_count, output>>

\* lines 13-29
Allocate ==
    /\ pc = "allocate"
    /\ \E rk \in {Ranking(votes, first_divisor, num_seats, sort_kind)} :
          \E pd \in {[i \in DOMAIN rk |-> Unravel(num_seats, rk[i])[1]]} :
             /\ party_dim' = pd
             /\ divisor_dim' = [i \in DOMAIN rk |-> Unravel(num_seats, rk[i])[2]]
             /\ seats_per_party' = SeatTally(pd, votes, num_seats)
    /\ pc' = "report_seats"
    /\ UNCHANGED <<votes, names_len, colors_len, num_seats, first_divisor,
                   sort_kind, uint_wraps, error, gain_table, gain_count,
                   loss_table, loss_count, output>>

\* seats_per_party[p] - k, lines 40 and 112: a Python int under value-based
\* casting, and a uint32 otherwise.  A wrapped uint32 is 2^32 + (a - k), past
\* the integers of the model checker; it stands here as the largest of them,
\* which like 2^32 + (a - k) is beyond the end of every array of the program.
UintMinus(wraps, a, k) == IF wraps /\ a - k < 0 THEN 2147483647 ELSE a - k

\* line 40: whether quotients[p, seats_per_party[p]-1] raises IndexError
SeatRowFails(p) ==
    PyIndex(UintMinus(uint_wraps, seats_per_party[p], 1), NumDivisors(num_seats)) = -1

\* np.zeros([num_parties, max_extra_seats - 1]), lines 45 and 97
ZeroTable == [p \in Parties(votes) |-> [j \in 0..(max_extra_seats - 2) |-> 0]]

\* lines 32-41, every row printed
ReportSeatsOk ==
    /\ pc = "report_seats"
    /\ \A p \in Parties(votes) : ~SeatRowFails(p)
    /\ output' = output \o <<"seats_header">>
                        \o [i \in 1..NumParties(votes) |-> "seats_row"]
    /\ gain_table' = ZeroTable
    /\ pc' = "gain"
    /\ UNCHANGED <<votes, names_len, colors_len, num_seats, first_divisor,
                   sort_kind, uint_wraps, error, party_dim, divisor_dim,
                   seats_per_party, gain_count, loss_table, loss_count>>

\* lines 32-41, stopped by the first row whose quotient index is out of range
ReportSeatsFail ==
    /\ pc = "report_seats"
    /\ \E p \in Parties(votes) :
          /\ SeatRowFails(p)
          /\ \A q \in 0..(p - 1) : ~SeatRowFails(q)
          /\ output' = output \o <<"seats_header">> \o [i \in 1..p |-> "seats_row"]
    /\ pc' = "failed"
    /\ error' = "IndexError"
    /\ UNCHANGED <<votes, names_len, colors_len, num_seats, first_divisor,
                   sort_kind, uint_wraps, party_dim, divisor_dim,
                   seats_per_party, gain_table, gain_count, loss_table,
                   loss_count>>

\* lines 55-61: seats_to_overtake when the walk ends, or -1 (IndexError)
RECURSIVE GainWalk(_, _, _, _)
GainWalk(p, wanted, sto, gotten) ==
    IF ~(gotten < wanted) THEN sto
    ELSE IF PyIndex(num_seats - (sto + 1), Cardinality(DOMAIN party_dim)) = -1 THEN -1
    ELSE GainWalk(p, wanted, sto + 1,
                  IF p # party_dim[PyIndex(num_seats - (sto + 1), Cardinality(DOMAIN party_dim))]
                  THEN gotten + 1 ELSE gotten)

\* The gain margin with the difference of line 70 taken the way line 118
\* takes it: the party's own quotient minus the quotient to overtake.
GainValueLossSign(p, sto) ==
    LET ix == PyIndex(num_seats - sto, Cardinality(DOMAIN party_dim))
        qo == Quotient(votes, first_divisor, <<party_dim[ix], divisor_dim[ix]>>)
        total_seats_wanted == seats_per_party[p] + sto
        d == Divisor(first_divisor, total_seats_wanted - 1)
    IN  CeilDiv(votes[p] * qo[2] * d[2] - qo[1] * d[1], qo[2] * d[2])

\* lines 63-71 for seats_to_overtake = sto: votes_needed[p, extra_seats_wanted-1]
GainValue(p, sto) ==
    LET ix == PyIndex(num_seats - sto, Cardinality(DOMAIN party_dim))
        qo == Quotient(votes, first_divisor, <<party_dim[ix], divisor_dim[ix]>>)
        total_seats_wanted == seats_per_party[p] + sto
        d == Divisor(first_divisor, total_seats_wanted - 1)
    IN  CeilDiv(qo[1] * d[1] - votes[p] * qo[2] * d[2], qo[2] * d[2])

\* lines 55-71: [ok |-> FALSE] on an IndexError, else the value written
GainMargin(p, wanted) ==
    CHOOSE r \in {IF sto = -1 \/ PyIndex(seats_per_party[p] + sto - 1,
                                        NumDivisors(num_seats)) = -1
                  THEN [ok |-> FALSE, val |-> 0]
                  ELSE [ok |-> TRUE, val |-> GainValue(p, sto)] :
                  sto \in {GainWalk(p, wanted, 0, 0)}} : TRUE

\* the (p, extra_seats_wanted) of the k-th pass of the loops of lines 46-47
LoopParty(k) == k \div (max_extra_seats - 1)

LoopWanted(k) == (k % (max_extra_seats - 1)) + 1

\* lines 46-71, one pass of the inner loop
GainEntry ==
    /\ pc = "gain"
    /\ gain_count < NumParties(votes) * (max_extra_seats - 1)
    /\ \E r \in {GainMargin(LoopParty(gain_count), LoopWanted(gain_count))} :
          /\ r.ok
          /\ gain_table' = [gain_table EXCEPT
                ![LoopParty(gain_count)][LoopWanted(gain_count) - 1] = r.val]
    /\ gain_count' = gain_count + 1
    /\ UNCHANGED <<votes, names_len, colors_len, num_seats, first_divisor,
                   sort_kind, uint_wraps, pc, error, party_dim, divisor_dim,
                   seats_per_party, loss_table, loss_count, output>>

GainEntryFail ==
    /\ pc = "gain"
    /\ gain_count < NumParties(votes) * (max_extra_seats - 1)
    /\ ~GainMargin(LoopParty(gain_count), LoopWanted(gain_count)).ok
    /\ pc' = "failed"
    /\ error' = "IndexError"
    /\ UNCHANGED <<votes, names_len, colors_len, num_seats, first_divisor,
                   sort_kind, uint_wraps, party_dim, divisor_dim,
                   seats_per_party, gain_table, gain_count, loss_table,
                   loss_count, output>>

\* lines 73-97
ReportGain ==
    /\ pc = "gain"
    /\ gain_count = NumParties(votes) * (max_extra_seats - 1)
    /\ output' = output \o <<"gain_report", "gain_plot">>
    /\ loss_table' = ZeroTable
    /\ pc' = "loss"
    /\ UNCHANGED <<votes, names_len, colors_len, num_seats, first_divisor,
                   sort_kind, uint_wraps, error, party_dim, divisor_dim,
                   seats_per_party, gain_table, gain_count, loss_count>>

\* lines 102-107: seats_to_fall_behind when the walk ends, or -1 (IndexError)
RECURSIVE LossWalk(_, _, _, _)
LossWalk(p, wanted, stfb, gotten) ==
    IF ~(gotten < wanted) THEN stfb
    ELSE IF PyIndex(num_seats - 1 + (stfb + 1), Cardinality(DOMAIN party_dim)) = -1 THEN -1
    ELSE LossWalk(p, wanted, stfb + 1,
                  IF p # party_dim[PyIndex(num_seats - 1 + (stfb + 1), Cardinality(DOMAIN party_dim))]
                  THEN gotten + 1 ELSE gotten)

\* line 112: total_wanted_seats, as an index into the columns of quotients
LossColumn(p, stfb) ==
    PyIndex(UintMinus(uint_wraps, seats_per_party[p], stfb), NumDivisors(num_seats))

\* lines 109-119 for seats_to_fall_behind = stfb: votes_needed[p, seats_lost_wanted-1]
LossValue(p, stfb) ==
    LET ix == PyIndex(num_seats - 1 + stfb, Cardinality(DOMAIN party_dim))
        ql == Quotient(votes, first_divisor, <<party_dim[ix], divisor_dim[ix]>>)
        d == Divisor(first_divisor, LossColumn(p, stfb))
    IN  CeilDiv(votes[p] * ql[2] * d[2] - ql[1] * d[1], ql[2] * d[2])

\* lines 102-119: [ok |-> FALSE] on an IndexError, else the value written
LossMargin(p, wanted) ==
    CHOOSE r \in {IF stfb = -1 \/ LossColumn(p, stfb) = -1
                  THEN [ok |-> FALSE, val |-> 0]
                  ELSE [ok |-> TRUE, val |-> LossValue(p, stfb)] :
                  stfb \in {LossWalk(p, wanted, 0, 0)}} : TRUE

\* lines 98-119, one pass of the inner loop
LossEntry ==
    /\ pc = "loss"
    /\ loss_count < NumParties(votes) * (max_extra_seats - 1)
    /\ \E r \in {LossMargin(LoopParty(loss_count), LoopWanted(loss_count))} :
          /\ r.ok
          /\ loss_table' = [loss_table EXCEPT
                ![LoopParty(loss_count)][LoopWanted(loss_count) - 1] = r.val]
    /\ loss_count' = loss_count + 1
    /\ UNCHANGED <<votes, names_len, colors_len, num_seats, first_divisor,
                   sort_kind, uint_wraps, pc, error, party_dim, divisor_dim,
                   seats_per_party, gain_table, gain_count, output>>

LossEntryFail ==
    /\ pc = "loss"
    /\ loss_count < NumParties(votes) * (max_extra_seats - 1)
    /\ ~LossMargin(LoopParty(loss_count), LoopWanted(loss_count)).ok
    /\ pc' = "failed"
    /\ error' = "IndexError"
    /\ UNCHANGED <<votes, names_len, colors_len, num_seats, first_divisor,
                   sort_kind, uint_wraps, party_dim, divisor_dim,
                   seats_per_party, gain_table, gain_count, loss_table,
                   loss_count, output>>

\* lines 121-142
ReportLoss ==
    /\ pc = "loss"
    /\ loss_count = NumParties(votes) * (max_extra_seats - 1)
    /\ output' = output \o <<"loss_report", "loss_plot">>
    /\ pc' = "done"
    /\ UNCHANGED <<votes, names_len, colors_len, num_seats, first_divisor,
                   sort_kind, uint_wraps, error, party_dim, divisor_dim,
                   seats_per_party, gain_table, gain_count, loss_table,
                   loss_count>>

Next ==
    \/ ValidateFail
    \/ ValidateOk
    \/ Allocate
    \/ ReportSeatsOk
    \/ ReportSeatsFail
    \/ GainEntry
    \/ GainEntryFail
    \/ ReportGain
    \/ LossEntry
    \/ LossEntryFail
    \/ ReportLoss

Spec == Init /\ [][Next]_vars

\* ---------------------------------------------------------------- claims
\* The allocation of lines 13-29 has run.
Allocated == seats_per_party # <<>>

\* votes_needed[p, g-1] of the gain side has been written.
GainWritten(p, g) == p * (max_extra_seats - 1) + (g - 1) < gain_count

\* votes_needed[p, l-1] of the loss side has been written.
LossWritten(p, l) == p * (max_extra_seats - 1) + (l - 1) < loss_count

Wanted == 1..(max_extra_seats - 1)

\* The tally with party p's votes changed by delta, the other inputs kept.
SeatsAfter(p, delta) ==
    Allocation([votes EXCEPT ![p] = @ + delta], first_divisor, num_seats, sort_kind)[p]

\* C1. Conservation: once the first num_seats entries of the ranking are
\* tallied, the seats of all parties sum to num_seats exactly.
Conservation == Allocated => Sum(seats_per_party) = num_seats

\* C1 witness: a tally in which two parties with votes hold seats, one of
\* them several.
ConservationWitness ==
    /\ pc = "report_seats"
    /\ NumParties(votes) >= 2
    /\ votes[0] > votes[1]
    /\ votes[1] > 0
    /\ seats_per_party[0] >= 2
    /\ seats_per_party[1] >= 1

\* The divisor method computed on its own: the seats go one at a time to the
\* party with the largest votes[p]/divisors[s[p]], s[p] the seats p holds;
\* equal quotients go to the smaller divisor rank, then the smaller party.
DivisorBeats(v, fd, s, p, q) ==
    \/ FracLess(Quotient(v, fd, <<q, s[q]>>), Quotient(v, fd, <<p, s[p]>>))
    \/ /\ FracEq(Quotient(v, fd, <<q, s[q]>>), Quotient(v, fd, <<p, s[p]>>))
       /\ (s[p] < s[q] \/ (s[p] = s[q] /\ p < q))

RECURSIVE DivisorMethod(_, _, _, _)
DivisorMethod(v, fd, s, left) ==
    IF left = 0 THEN s
    ELSE DivisorMethod(v, fd,
            [s EXCEPT ![CHOOSE p \in Parties(v) :
                           \A q \in Parties(v) \ {p} : DivisorBeats(v, fd, s, p, q)] = @ + 1],
            left - 1)

\* C2. The tally of the first num_seats ranking entries equals the allocation
\* of the divisor method computed seat by seat, for every valid input.
MatchesDivisorMethod ==
    Allocated =>
        seats_per_party =
            DivisorMethod(votes, first_divisor, [p \in Parties(votes) |-> 0], num_seats)

\* C3. Gain round-trip: with votes[p] raised by the gain margin for g, party p
\* is allocated seats_per_party[p] + g seats, and with one vote less it is not.
GainRoundTrip ==
    \A p \in Parties(votes) : \A g \in Wanted :
        (pc = "gain" /\ GainWritten(p, g)) =>
            /\ SeatsAfter(p, gain_table[p][g - 1]) = seats_per_party[p] + g
            /\ SeatsAfter(p, gain_table[p][g - 1] - 1) # seats_per_party[p] + g

\* C4. Loss round-trip: with votes[p] lowered by the loss margin for l, party p
\* is allocated seats_per_party[p] - l seats, and with one vote more it is not.
LossRoundTrip ==
    \A p \in Parties(votes) : \A l \in Wanted :
        (pc = "loss" /\ LossWritten(p, l)) =>
            /\ SeatsAfter(p, -loss_table[p][l - 1]) = seats_per_party[p] - l
            /\ SeatsAfter(p, -(loss_table[p][l - 1] - 1)) # seats_per_party[p] - l

\* The quotient at ranking position i.
RankedQuotient(i) == Quotient(votes, first_divisor, <<party_dim[i], divisor_dim[i]>>)

\* C5. Tie-break rule: of two ranking positions with equal quotients, the one
\* with the smaller divisor rank comes first, and for equal divisor ranks the
\* one with the smaller party index.
TieBreakRule ==
    pc = "report_seats" =>
        \A i \in DOMAIN party_dim : \A j \in DOMAIN party_dim :
            (i < j /\ FracEq(RankedQuotient(i), RankedQuotient(j))) =>
                \/ divisor_dim[i] < divisor_dim[j]
                \/ /\ divisor_dim[i] = divisor_dim[j]
                   /\ party_dim[i] < party_dim[j]

\* The divisor ranks party p holds among the first num_seats ranking entries.
RanksWon(p) == {divisor_dim[i] : i \in {j \in 0..(num_seats - 1) : party_dim[j] = p}}

\* C6 as stated. Rank contiguity for every first_divisor > 0 and every
\* nonnegative tally: party p holds exactly the ranks 0..seats_per_party[p]-1.
RankContiguity ==
    Allocated => \A p \in Parties(votes) : RanksWon(p) = 0..(seats_per_party[p] - 1)

\* C6 as amended. Rank contiguity for first_divisor < 3 and a party with
\* votes: party p holds exactly the ranks 0..seats_per_party[p]-1.
RankContiguityDecreasing ==
    (Allocated /\ first_divisor[1] < 3 * first_divisor[2]) =>
        \A p \in Parties(votes) :
            votes[p] > 0 => RanksWon(p) = 0..(seats_per_party[p] - 1)

\* C6 witness: under a first divisor below 3, two parties with equal votes,
\* hence tied quotients, both hold seats and one holds several ranks.
RankContiguityWitness ==
    /\ pc = "report_seats"
    /\ first_divisor[1] < 3 * first_divisor[2]
    /\ NumParties(votes) >= 2
    /\ votes[0] = votes[1]
    /\ votes[0] > 0
    /\ seats_per_party[0] >= 1
    /\ seats_per_party[1] >= 2

\* C7. Every margin written to either table is nonnegative.
MarginsNonNegative ==
    \A p \in Parties(votes) : \A g \in Wanted :
        /\ GainWritten(p, g) => gain_table[p][g - 1] >= 0
        /\ LossWritten(p, g) => loss_table[p][g - 1] >= 0

\* C8. Fail-fast: a run that ends in an error has produced no output.
FailFast == pc = "failed" => output = <<>>

\* C9 as stated. A party with zero votes holds zero seats and every gain
\* margin of its row is strictly positive, whatever the other votes.
ZeroVoteParty ==
    \A p \in Parties(votes) :
        votes[p] = 0 =>
            /\ Allocated => seats_per_party[p] = 0
            /\ \A g \in Wanted : GainWritten(p, g) => gain_table[p][g - 1] > 0

\* C9 as amended. When some party has votes, a party with zero votes holds
\* zero seats, and its gain margin for every g up to num_seats is strictly
\* positive.
ZeroVotePartyAmongVoted ==
    \A p \in Parties(votes) :
        (votes[p] = 0 /\ \E q \in Parties(votes) : votes[q] > 0) =>
            /\ Allocated => seats_per_party[p] = 0
            /\ \A g \in Wanted :
                  (GainWritten(p, g) /\ g <= num_seats) => gain_table[p][g - 1] > 0

\* C9 witness: a zero-vote party beside a party with votes, its gain margins
\* for one and for two extra seats written.
ZeroVotePartyWitness ==
    /\ pc = "gain"
    /\ NumParties(votes) >= 2
    /\ votes[0] = 0
    /\ votes[1] > 0
    /\ num_seats >= 2
    /\ GainWritten(0, 2)

\* The l-th ranking position at or after num_seats that party p does not own.
NthOtherBehind(p, l) ==
    CHOOSE i \in DOMAIN party_dim :
        /\ i >= num_seats
        /\ party_dim[i] # p
        /\ Cardinality({j \in num_seats..(i - 1) : party_dim[j] # p}) = l - 1

\* ceil((votes[p]/divisors[k] - Q) * divisors[k]) for the quotient Q at position i
LossFormula(p, k, i) ==
    CeilDiv(votes[p] * RankedQuotient(i)[2] * Divisor(first_divisor, k)[2]
              - RankedQuotient(i)[1] * Divisor(first_divisor, k)[1],
            RankedQuotient(i)[2] * Divisor(first_divisor, k)[2])

\* C10. Loss-side rank index: the loss margin for l is computed at the divisor
\* rank k = seats_per_party[p] - l, whatever the forward walk skipped.
LossRankIndex ==
    \A p \in Parties(votes) : \A l \in Wanted :
        (LossWritten(p, l) /\ seats_per_party[p] >= l) =>
            loss_table[p][l - 1] = LossFormula(p, seats_per_party[p] - l, NthOtherBehind(p, l))

====
